---------------------------- MODULE Spec2Model ----------------------------
(***************************************************************************)
(* NPS survey pipelines of the repository:                                 *)
(*   gen_kano_data.py          topic classification (Kano) for 2025        *)
(*   gen_lojistas_js_final.py  NPS table per shopping and period           *)
(*   gen_nps_matrix_final.py   NPS matrix with the PORTFOLIO rows          *)
(*                                                                         *)
(* Each script is a batch job: it loads the long-format CSV (df) and runs  *)
(* its sections in order.  The model has one action per section.           *)
(*                                                                         *)
(* Numbers.  A score (Nota) is held in tenths: the CSV value 8 is 80, the  *)
(* CSV value 85 is 850, so that the division by 10 of the score normalizer *)
(* is exact integer division.  Percentages and NPS values rounded to one   *)
(* decimal are held in tenths, means rounded to two decimals in            *)
(* hundredths.  A pivot cell is the exact mean of the respondent's rows,   *)
(* kept as the pair (sum of tenths, number of rows); count 0 is NaN.       *)
(***************************************************************************)
EXTENDS Integers, Sequences, FiniteSets, TLC

VARIABLES
    df,             \* the rows read from the CSV, in file order
    script,         \* which of the three scripts is running
    pc,             \* the section of the script that runs next
    df_2025,        \* kano: the selected (and then normalized) rows
    pivot,          \* kano: ResponseID -> [ShoppingCode, cells]
    kano_global,    \* kano: topic statistics over the whole pivot
    kano_by_shop,   \* kano: shopping -> topic statistics
    heatmap,        \* kano: shopping -> theme -> mean
    nps_static,     \* kano: shopping -> NPS snapshot
    lojistas_list,  \* kano: shopping -> roster
    df_final,       \* lojistas: finished, de-duplicated target rows
    df_fim,         \* matrix: finished, de-duplicated target rows
    output,         \* lojistas: shopping or "GLOBAL" -> list of NPS records
    grouped,        \* matrix: rows per (ShoppingCode, Period)
    portfolio       \* matrix: PORTFOLIO rows per Period

vars == <<df, script, pc, df_2025, pivot, kano_global, kano_by_shop, heatmap,
          nps_static, lojistas_list, df_final, df_fim, output, grouped,
          portfolio>>

kanoVars == <<df_2025, pivot, kano_global, kano_by_shop, heatmap, nps_static,
              lojistas_list>>
npsVars == <<df_final, df_fim, output, grouped, portfolio>>

---------------------------------------------------------------------------
(* Bounds of the model *)

\* rows of a free-form CSV
MaxRows == 2
\* respondents of a CSV built from respondent profiles
MaxResp == 6

---------------------------------------------------------------------------
(* Program constants *)

TARGET == "O Shopping"
Fim == "Fim"
\* a missing ShoppingCode (NaN in the data frame)
NaN == "NaN"
\* len(valid) < 5: continue
MinPairs == 5

\* score thresholds, in tenths
Ten == 100
PromMin == 90
PasMin == 70
PasMax == 80
DetMax == 60
\* mean >= 8.5, mean < 8.0, in tenths
BasMean == 85
CritMean == 80

---------------------------------------------------------------------------
(* Helpers on sequences and numbers *)

Range(s) == {s[i] : i \in DOMAIN s}

RECURSIVE SelectSeq2(_, _)
\* the rows of s at the indices in keep, in order (boolean indexing)
SelectSeq2(s, keep) ==
    IF s = <<>> THEN <<>>
    ELSE LET n == Len(s)
             front == SelectSeq2(SubSeq(s, 1, n - 1), keep)
         IN IF n \in keep THEN Append(front, s[n]) ELSE front

RECURSIVE SumSet(_, _)
\* sum of f[x] over x in S
SumSet(f, S) ==
    IF S = {} THEN 0
    ELSE LET x == CHOOSE y \in S : TRUE
         IN f[x] + SumSet(f, S \ {x})

RECURSIVE ProdSet(_, _)
ProdSet(f, S) ==
    IF S = {} THEN 1
    ELSE LET x == CHOOSE y \in S : TRUE
         IN f[x] * ProdSet(f, S \ {x})

\* round(num / den) to the nearest integer, ties to even (Python's round), den > 0
Round(num, den) ==
    LET q == num \div den
        r == num - q * den
    IN IF 2 * r < den THEN q
       ELSE IF 2 * r > den THEN q + 1
       ELSE IF q % 2 = 0 THEN q ELSE q + 1

Max(S) == CHOOSE x \in S : \A y \in S : y <= x

\* p contains the token tok ('tok' in p)
Contains(p, tok) == \E i \in DOMAIN p : p[i] = tok

---------------------------------------------------------------------------
(* The CSV *)

\* A Pesquisa label is a sequence of words; 'x in p' is Contains(p, x).
Pesquisa2025 == <<"NPS", "2025">>
Pesquisa2025b == <<"2025">>
Pesquisa2024 == <<"Lojistas", "2024/2">>

ResponseIDs == {1, 2}
Temas == {TARGET, "Limpeza"}
Momentos == {Fim, "Inicio"}
ShoppingCodes == {"SDI", "SSA", NaN}
\* raw scores 8 and 10 (scale 0-10) and 85 (scale 0-100), in tenths
Notas == {80, 100, 850}
\* the scores of the free-form rows of the kano script
KanoNotas == {100, 850}

Row(p, id, t, m, s, n) ==
    [Pesquisa |-> p, ResponseID |-> id, Tema |-> t, Momento |-> m,
     ShoppingCode |-> s, Nota |-> n]

\* rows of the 2025 survey, and one row of another survey per respondent
\* the target rows are free; a row that the first filter of the NPS scripts
\* drops is one of two kinds per respondent
NpsRows ==
    {Row(p, id, TARGET, Fim, s, n) :
        p \in {Pesquisa2025, Pesquisa2025b, Pesquisa2024},
        id \in ResponseIDs, s \in ShoppingCodes, n \in Notas}
    \cup {Row(Pesquisa2025, id, TARGET, "Inicio", "SDI", 100) : id \in ResponseIDs}
    \cup {Row(Pesquisa2025, id, "Limpeza", Fim, "SDI", 100) : id \in ResponseIDs}

KanoRows ==
    {Row(Pesquisa2025, id, t, m, s, n) :
        id \in ResponseIDs, t \in Temas, m \in Momentos,
        s \in ShoppingCodes, n \in KanoNotas}
    \cup {Row(Pesquisa2024, id, TARGET, Fim, "SDI", 100) : id \in ResponseIDs}

SeqsUpTo(S, n) == UNION {[1..k -> S] : k \in 0..n}

(* A respondent profile: one target row (finished or not) and at most one  *)
(* row of the other theme.  topic = 0 stands for no such row.              *)
Profile(m, target, topic, s) ==
    [Momento |-> m, target |-> target, topic |-> topic, ShoppingCode |-> s]

Profiles ==
    << Profile(Fim, 80, 70, "SDI"),   Profile(Fim, 80, 100, "SDI"),
       Profile(Fim, 100, 70, "SDI"),  Profile(Fim, 100, 100, "SDI"),
       Profile(Fim, 80, 70, "SSA"),   Profile(Fim, 80, 100, "SSA"),
       Profile(Fim, 100, 0, "SSA"),   Profile(Fim, 100, 70, "SSA"),
       Profile(Fim, 100, 100, "SSA"), Profile("Inicio", 100, 100, "SDI") >>

\* the non-decreasing sequences of profile numbers of length n: one per
\* multiset of profiles (the statistics do not depend on the respondents' order)
ProfileSeqs[n \in Nat] ==
    IF n = 0 THEN {<<>>}
    ELSE UNION {{Append(q, k) : k \in {j \in DOMAIN Profiles :
                                          q = <<>> \/ j >= q[Len(q)]}} :
                q \in ProfileSeqs[n - 1]}

RECURSIVE ProfileRows(_)
\* the CSV rows of respondents 1..Len(q) with the profiles q
ProfileRows(q) ==
    IF q = <<>> THEN <<>>
    ELSE LET id == Len(q)
             p == Profiles[q[id]]
             front == ProfileRows(SubSeq(q, 1, id - 1))
             target == Row(Pesquisa2025, id, TARGET, p.Momento,
                           p.ShoppingCode, p.target)
             topic == Row(Pesquisa2025, id, "Limpeza", "Inicio",
                          p.ShoppingCode, p.topic)
         IN IF p.topic = 0 THEN Append(front, target)
            ELSE Append(Append(front, target), topic)

ProfileData == {ProfileRows(q) : q \in UNION {ProfileSeqs[n] : n \in 0..MaxResp}}

---------------------------------------------------------------------------
(* gen_kano_data.py *)

\* map_period of gen_kano_data.py
map_period_kano(p) == IF Contains(p, "2025") THEN <<"2025">> ELSE p

\* df[df['Period'] == '2025']
df_2025_raw(rows) ==
    SelectSeq2(rows, {i \in DOMAIN rows :
                        map_period_kano(rows[i].Pesquisa) = <<"2025">>})

\* respondents with a finished target row in 2025
valid_ids(rows) ==
    {r.ResponseID : r \in {x \in Range(df_2025_raw(rows)) :
                             x.Tema = TARGET /\ x.Momento = Fim}}

\* SelectValid without the gate on the valid respondents
SelectValid_NoGate(rows) ==
    LET raw == df_2025_raw(rows)
    IN SelectSeq2(raw, {i \in DOMAIN raw :
            \/ raw[i].Tema = TARGET /\ raw[i].Momento = Fim
            \/ raw[i].Tema # TARGET})

\* the rows of the valid respondents: the finished target rows and all rows
\* of the other themes
SelectValid(rows) ==
    LET raw == df_2025_raw(rows)
        ids == valid_ids(rows)
    IN SelectSeq2(raw, {i \in DOMAIN raw :
            /\ raw[i].ResponseID \in ids
            /\ \/ raw[i].Tema = TARGET /\ raw[i].Momento = Fim
               \/ raw[i].Tema # TARGET})

\* max() > 10 of a column of scores; max() of no score is NaN, and NaN > 10
\* is False
NeedsScaling(notas) == notas # {} /\ Max(notas) > Ten

\* if df_2025['Nota'].max() > 10: df_2025['Nota'] = df_2025['Nota'] / 10
NormalizeNota(rows) ==
    IF NeedsScaling({r.Nota : r \in Range(rows)})
    THEN [i \in DOMAIN rows |-> [rows[i] EXCEPT !.Nota = @ \div 10]]
    ELSE rows

(* shop_map: drop_duplicates keeps the first occurrence of each            *)
(* (ResponseID, ShoppingCode) pair and to_dict keeps the last pair of a    *)
(* ResponseID: the code whose first occurrence comes last.                 *)
FirstIndex(rows, id, code) ==
    CHOOSE i \in DOMAIN rows :
        /\ rows[i].ResponseID = id /\ rows[i].ShoppingCode = code
        /\ \A j \in 1..(i - 1) :
              ~(rows[j].ResponseID = id /\ rows[j].ShoppingCode = code)

shop_map(rows) ==
    [id \in {r.ResponseID : r \in Range(rows)} |->
        LET codes == {r.ShoppingCode : r \in {x \in Range(rows) : x.ResponseID = id}}
        IN CHOOSE c \in codes :
              \A d \in codes : FirstIndex(rows, id, d) <= FirstIndex(rows, id, c)]

\* aggfunc='mean' of the scores of one respondent and theme
Cell(rows, id, t) ==
    LET idx == {i \in DOMAIN rows : rows[i].ResponseID = id /\ rows[i].Tema = t}
    IN [s |-> SumSet([i \in idx |-> rows[i].Nota], idx), c |-> Cardinality(idx)]

\* pivot_table(index='ResponseID', columns='Tema', values='Nota') joined
\* with the ShoppingCode of shop_map
Pivot(rows) ==
    LET ids == {r.ResponseID : r \in Range(rows)}
        cols == {r.Tema : r \in Range(rows)}
        sm == shop_map(rows)
    IN [id \in ids |->
          [ShoppingCode |-> sm[id],
           cells |-> [t \in cols |-> Cell(rows, id, t)]]]

\* the columns of a pivot frame
Columns(pv) == UNION {DOMAIN pv[id].cells : id \in DOMAIN pv}

\* themes = the columns but the target and the ShoppingCode
themes == Columns(pivot) \ {TARGET}

\* sorted(pivot['ShoppingCode'].dropna().unique())
shoppings == {pivot[id].ShoppingCode : id \in DOMAIN pivot} \ {NaN}

---------------------------------------------------------------------------
(* calculate_stats *)

\* a correlation: r = cov / sqrt(vx * vy), NaN when a variance is zero
Corr(cov, vx, vy) == [nan |-> (vx = 0 \/ vy = 0), cov |-> cov, vx |-> vx, vy |-> vy]

\* r < 0, r < 0.2 and r >= 0.25; every comparison with NaN is False
RNeg(r) == ~r.nan /\ r.cov < 0
RBelowFifth(r) == ~r.nan /\ (r.cov < 0 \/ 25 * r.cov * r.cov < r.vx * r.vy)
RAtLeastQuarter(r) == ~r.nan /\ r.cov >= 0 /\ 16 * r.cov * r.cov >= r.vx * r.vy

\* Category with the test for 'bas' before the test for 'rev'
Category_BasFirst(num, den, r) ==
    IF num >= BasMean * den /\ RBelowFifth(r) THEN "bas"
    ELSE IF RNeg(r) THEN "rev"
    ELSE IF RAtLeastQuarter(r) THEN "enc"
    ELSE IF num < CritMean * den /\ RBelowFifth(r) THEN "crit"
    ELSE "per"

\* the if / elif chain of calculate_stats; the mean is num / den tenths
Category(num, den, r) ==
    IF RNeg(r) THEN "rev"
    ELSE IF num >= BasMean * den /\ RBelowFifth(r) THEN "bas"
    ELSE IF RAtLeastQuarter(r) THEN "enc"
    ELSE IF num < CritMean * den /\ RBelowFifth(r) THEN "crit"
    ELSE "per"

\* 'r': round(r, 3) if not np.isnan(r) else 0.  The value is kept exact; the
\* digits dropped by round(r, 3) are not modelled.
RZero == [cov |-> 0, vx |-> 1, vy |-> 1]
EmitR(r) == IF r.nan THEN RZero ELSE [cov |-> r.cov, vx |-> r.vx, vy |-> r.vy]

\* df_sub[[t, TARGET]].dropna(): the respondents with both scores
ValidPairs(pv, ids, t) ==
    {id \in ids : pv[id].cells[t].c > 0 /\ pv[id].cells[TARGET].c > 0}

\* the scores of column t over the respondents V on a common denominator
ColDen(pv, V, t) == ProdSet([id \in V |-> pv[id].cells[t].c], V)
ColNum(pv, V, t) ==
    LET d == ColDen(pv, V, t)
    IN [id \in V |-> pv[id].cells[t].s * (d \div pv[id].cells[t].c)]

\* valid[t].corr(valid[TARGET])
Pearson(pv, V, t) ==
    LET x == ColNum(pv, V, t)
        y == ColNum(pv, V, TARGET)
        n == Cardinality(V)
        sx == SumSet(x, V)
        sy == SumSet(y, V)
        sxy == SumSet([id \in V |-> x[id] * y[id]], V)
        sxx == SumSet([id \in V |-> x[id] * x[id]], V)
        syy == SumSet([id \in V |-> y[id] * y[id]], V)
    IN Corr(n * sxy - sx * sy, n * sxx - sx * sx, n * syy - sy * sy)

\* promoters and detractors of a pivot column
IsProm(cell) == cell.s >= PromMin * cell.c
IsDet(cell) == cell.s <= DetMax * cell.c

\* EnoughPairs with len(valid) <= 5: continue
EnoughPairs_Strict(n) == n > MinPairs

\* len(valid) < 5: continue
EnoughPairs(n) == n >= MinPairs

\* one entry of stats
ThemeStat(pv, V, t) ==
    LET n == Cardinality(V)
        den == n * ColDen(pv, V, t)
        num == SumSet(ColNum(pv, V, t), V)
        r == Pearson(pv, V, t)
        prom == Cardinality({id \in V : IsProm(pv[id].cells[t])})
        det == Cardinality({id \in V : IsDet(pv[id].cells[t])})
    IN [t |-> t,
        m |-> Round(10 * num, den),
        nps |-> Round(1000 * (prom - det), n),
        r |-> EmitR(r),
        n |-> n,
        cat |-> Category(num, den, r)]

\* calculate_stats(df_sub, themes), df_sub the rows ids of the pivot pv:
\* theme -> its entry, for the themes that are not skipped
calculate_stats(pv, ids, ths) ==
    IF TARGET \notin Columns(pv) THEN <<>>
    ELSE LET kept == {t \in ths :
                        /\ t \in Columns(pv)
                        /\ EnoughPairs(Cardinality(ValidPairs(pv, ids, t)))}
         IN [t \in kept |-> ThemeStat(pv, ValidPairs(pv, ids, t), t)]

\* pivot[pivot['ShoppingCode'] == s]
ShopIds(pv, s) == {id \in DOMAIN pv : pv[id].ShoppingCode = s}

\* a float that may be NaN
Num(v) == [nan |-> FALSE, v |-> v]
NaNum == [nan |-> TRUE, v |-> 0]

\* s_df[themes].mean().round(2): the mean of a column skips NaN cells and is
\* NaN when no cell is left
ColumnMean(pv, ids, t) ==
    LET V == {id \in ids : pv[id].cells[t].c > 0}
    IN IF V = {} THEN NaNum
       ELSE Num(Round(10 * SumSet(ColNum(pv, V, t), V),
                      Cardinality(V) * ColDen(pv, V, t)))

Heatmap(pv, ths) ==
    [s \in {pv[id].ShoppingCode : id \in DOMAIN pv} \ {NaN} |->
        [t \in ths |-> ColumnMean(pv, ShopIds(pv, s), t)]]

---------------------------------------------------------------------------
(* NPS of a list of scores (tenths, already on the 0-10 scale) *)

CountIf(notes, P(_)) == Cardinality({i \in DOMAIN notes : P(notes[i])})

\* notes >= 9
Promoter(n) == n >= PromMin
\* (notes >= 7) & (notes <= 8)
Passive(n) == n >= PasMin /\ n <= PasMax
\* notes <= 6
Detractor(n) == n <= DetMax

SumSeq(notes) == SumSet(notes, DOMAIN notes)

\* round(x / total * 100, 1), in tenths of a percent
Pct(x, total) == Round(1000 * x, total)

\* the target rows of shopping s in df_2025
TargetRowsOf(rows, s) ==
    SelectSeq2(rows, {i \in DOMAIN rows :
                        rows[i].ShoppingCode = s /\ rows[i].Tema = TARGET})

\* one entry of nps_static
NpsSnapshot(rows) ==
    LET notes == [i \in DOMAIN rows |-> rows[i].Nota]
        total == Len(notes)
        prom == CountIf(notes, Promoter)
        det == CountIf(notes, Detractor)
        pas == CountIf(notes, Passive)
    IN [nps |-> Pct(prom - det, total),
        media |-> Round(10 * SumSeq(notes), total),
        n |-> total,
        prom |-> Pct(prom, total),
        neu |-> Pct(pas, total),
        detr |-> Pct(det, total)]

\* nps_static: the shoppings with no target row are skipped
NpsStatic(rows, shops) ==
    [s \in {x \in shops : TargetRowsOf(rows, x) # <<>>} |->
        NpsSnapshot(TargetRowsOf(rows, s))]

\* cat = 'prom' if score >= 9 else ('pass' if score >= 7 else 'detr')
RosterCat(score) ==
    IF score >= PromMin THEN "prom" ELSE IF score >= PasMin THEN "pass" ELSE "detr"

\* the details of a respondent: the non-NaN cells of the pivot row but the
\* target, rounded to one decimal
Details(pv, rid) ==
    IF rid \notin DOMAIN pv THEN <<>>
    ELSE LET cs == pv[rid].cells
         IN [t \in {k \in DOMAIN cs : k # TARGET /\ cs[k].c > 0} |->
                Round(cs[t].s, cs[t].c)]

\* df_2025[(df_2025['ResponseID'].isin(s_ids)) & (df_2025['Tema'] == TARGET)]
RosterRows(rows, pv, s) ==
    SelectSeq2(rows, {i \in DOMAIN rows :
                        /\ rows[i].ResponseID \in ShopIds(pv, s)
                        /\ rows[i].Tema = TARGET})

(* lojistas_list[s]: one entry per row of s_data.  rid is the row the      *)
(* entry is built from; the store name and the comment text, which are     *)
(* copied from columns that take no part in any computation, are not       *)
(* modelled.                                                               *)
Roster(rows, pv, s) ==
    LET data == RosterRows(rows, pv, s)
    IN [i \in DOMAIN data |->
          [rid |-> data[i].ResponseID,
           s |-> data[i].Nota,
           c |-> RosterCat(data[i].Nota),
           d |-> Details(pv, data[i].ResponseID)]]

---------------------------------------------------------------------------
(* The sections of gen_kano_data.py *)

Empty == <<>>

InitVars ==
    /\ df_2025 = Empty /\ pivot = Empty /\ kano_global = Empty
    /\ kano_by_shop = Empty /\ heatmap = Empty /\ nps_static = Empty
    /\ lojistas_list = Empty /\ df_final = Empty /\ df_fim = Empty
    /\ output = Empty
    /\ grouped = Empty /\ portfolio = Empty

InitKano ==
    /\ df \in SeqsUpTo(KanoRows, MaxRows) \cup ProfileData
    /\ script = "kano"
    /\ pc = "select"
    /\ InitVars

\* lines 15-35
KanoSelect ==
    /\ script = "kano" /\ pc = "select"
    /\ df_2025' = SelectValid(df)
    /\ pc' = "normalize"
    /\ UNCHANGED <<df, script, pivot, kano_global, kano_by_shop, heatmap,
                   nps_static, lojistas_list, npsVars>>

\* lines 37-39
KanoNormalize ==
    /\ script = "kano" /\ pc = "normalize"
    /\ df_2025' = NormalizeNota(df_2025)
    /\ pc' = "pivot"
    /\ UNCHANGED <<df, script, pivot, kano_global, kano_by_shop, heatmap,
                   nps_static, lojistas_list, npsVars>>

\* lines 44-57
KanoPivot ==
    /\ script = "kano" /\ pc = "pivot"
    /\ pivot' = Pivot(df_2025)
    /\ pc' = "global"
    /\ UNCHANGED <<df, script, df_2025, kano_global, kano_by_shop, heatmap,
                   nps_static, lojistas_list, npsVars>>

\* line 120
KanoGlobal ==
    /\ script = "kano" /\ pc = "global"
    /\ kano_global' = calculate_stats(pivot, DOMAIN pivot, themes)
    /\ pc' = "by_shop"
    /\ UNCHANGED <<df, script, df_2025, pivot, kano_by_shop, heatmap,
                   nps_static, lojistas_list, npsVars>>

\* lines 124-129
KanoByShop ==
    /\ script = "kano" /\ pc = "by_shop"
    /\ kano_by_shop' =
          [s \in shoppings |-> calculate_stats(pivot, ShopIds(pivot, s), themes)]
    /\ pc' = "heatmap"
    /\ UNCHANGED <<df, script, df_2025, pivot, kano_global, heatmap,
                   nps_static, lojistas_list, npsVars>>

\* lines 134-137
KanoHeatmap ==
    /\ script = "kano" /\ pc = "heatmap"
    /\ heatmap' = Heatmap(pivot, themes)
    /\ pc' = "nps_static"
    /\ UNCHANGED <<df, script, df_2025, pivot, kano_global, kano_by_shop,
                   nps_static, lojistas_list, npsVars>>

\* lines 142-162
KanoNpsStatic ==
    /\ script = "kano" /\ pc = "nps_static"
    /\ nps_static' = NpsStatic(df_2025, shoppings)
    /\ pc' = "lojistas"
    /\ UNCHANGED <<df, script, df_2025, pivot, kano_global, kano_by_shop,
                   heatmap, lojistas_list, npsVars>>

\* lines 170-229; col_loja says whether the CSV has a store-name column
KanoLojistas ==
    /\ script = "kano" /\ pc = "lojistas"
    /\ \E col_loja \in BOOLEAN :
          lojistas_list' =
             IF col_loja
             THEN [s \in shoppings |-> Roster(df_2025, pivot, s)]
             ELSE Empty
    /\ pc' = "done"
    /\ UNCHANGED <<df, script, df_2025, pivot, kano_global, kano_by_shop,
                   heatmap, nps_static, npsVars>>

NextKano ==
    \/ KanoSelect
    \/ KanoNormalize
    \/ KanoPivot
    \/ KanoGlobal
    \/ KanoByShop
    \/ KanoHeatmap
    \/ KanoNpsStatic
    \/ KanoLojistas

SpecKano == InitKano /\ [][NextKano]_vars

---------------------------------------------------------------------------
(* gen_lojistas_js_final.py and gen_nps_matrix_final.py *)

\* map_period of the two NPS scripts
map_period(p) ==
    IF Contains(p, "2024/1") THEN <<"2024/1">>
    ELSE IF Contains(p, "2024/2") THEN <<"2024/2">>
    ELSE IF Contains(p, "2025") THEN <<"2025">>
    ELSE p

target_periods == << <<"2024/1">>, <<"2024/2">>, <<"2025">> >>

WithPeriod(r) ==
    [Pesquisa |-> r.Pesquisa, ResponseID |-> r.ResponseID, Tema |-> r.Tema,
     Momento |-> r.Momento, ShoppingCode |-> r.ShoppingCode, Nota |-> r.Nota,
     Period |-> map_period(r.Pesquisa)]

\* df_nps[df_nps['Momento'] == 'Fim'], df_nps the target rows with their Period
FilterFim(rows) ==
    LET kept == SelectSeq2(rows, {i \in DOMAIN rows :
                                    rows[i].Tema = TARGET /\ rows[i].Momento = Fim})
    IN [i \in DOMAIN kept |-> WithPeriod(kept[i])]

\* DropDuplicates with keep='last'
DropDuplicates_KeepLast(rows) ==
    SelectSeq2(rows, {i \in DOMAIN rows :
        \A j \in (i + 1)..Len(rows) :
            ~(rows[j].Period = rows[i].Period
              /\ rows[j].ResponseID = rows[i].ResponseID)})

\* drop_duplicates(subset=['Period', 'ResponseID'], keep='first')
DropDuplicates(rows) ==
    SelectSeq2(rows, {i \in DOMAIN rows :
        \A j \in 1..(i - 1) :
            ~(rows[j].Period = rows[i].Period
              /\ rows[j].ResponseID = rows[i].ResponseID)})

\* ScaleNotes that divides by 10 whatever the maximum is
ScaleNotes_Always(notes) == [i \in DOMAIN notes |-> notes[i] \div 10]

\* notes = df_sub['Nota'].values.copy(); if notes.max() > 10: notes = notes / 10
ScaleNotes(notes) ==
    IF NeedsScaling(Range(notes)) THEN [i \in DOMAIN notes |-> notes[i] \div 10]
    ELSE notes

NotesOf(rows) == [i \in DOMAIN rows |-> rows[i].Nota]

\* calculate_metrics(df_sub, period_name), df_sub not empty
calculate_metrics(rows, period_name) ==
    LET total == Len(rows)
        notes == ScaleNotes(NotesOf(rows))
        prom == CountIf(notes, Promoter)
        passives == CountIf(notes, Passive)
        det == CountIf(notes, Detractor)
    IN [period |-> period_name,
        nps |-> Pct(prom - det, total),
        total |-> total,
        prom_pct |-> Pct(prom, total),
        pass_pct |-> Pct(passives, total),
        det_pct |-> Pct(det, total),
        prom_abs |-> prom,
        pass_abs |-> passives,
        det_abs |-> det]

RowsOfPeriod(rows, p) == SelectSeq2(rows, {i \in DOMAIN rows : rows[i].Period = p})
RowsOfShop(rows, s) == SelectSeq2(rows, {i \in DOMAIN rows : rows[i].ShoppingCode = s})

RECURSIVE PeriodMetrics(_, _)
\* the metrics of the periods ps, in order; if total == 0: return None, and
\* the period is left out
PeriodMetrics(rows, ps) ==
    IF ps = <<>> THEN <<>>
    ELSE LET p_df == RowsOfPeriod(rows, Head(ps))
             rest == PeriodMetrics(rows, Tail(ps))
         IN IF Len(p_df) = 0 THEN rest
            ELSE <<calculate_metrics(p_df, Head(ps))>> \o rest

\* sorted([str(s) for s in df_final['ShoppingCode'].dropna().unique()])
ShopsOf(rows) == {r.ShoppingCode : r \in Range(rows)} \ {NaN}

\* get_metrics(x) of a group of the matrix; a group is never empty.  NPS is
\* the value the table prints, with one decimal (line 88)
get_metrics(rows) ==
    LET total == Len(rows)
        notes == ScaleNotes(NotesOf(rows))
        prom == CountIf(notes, Promoter)
        passives == CountIf(notes, Passive)
        det == CountIf(notes, Detractor)
    IN [N |-> total, Det |-> det, Neu |-> passives, Prom |-> prom,
        NPS |-> Pct(prom - det, total)]

\* df_fim.groupby(['ShoppingCode', 'Period']).apply(get_metrics): the groups
\* are the pairs that occur; a row with a NaN key is in no group
Grouped(rows) ==
    [g \in {<<r.ShoppingCode, r.Period>> : r \in {x \in Range(rows) :
                                                    x.ShoppingCode # NaN}} |->
        get_metrics(RowsOfPeriod(RowsOfShop(rows, g[1]), g[2]))]

\* Portfolio over the rows that have a ShoppingCode only
Portfolio_OnlyCoded(rows) ==
    LET coded == SelectSeq2(rows, {i \in DOMAIN rows : rows[i].ShoppingCode # NaN})
    IN [p \in {r.Period : r \in Range(coded)} |-> get_metrics(RowsOfPeriod(coded, p))]

\* df_fim.groupby('Period').apply(get_metrics)
Portfolio(rows) ==
    [p \in {r.Period : r \in Range(rows)} |-> get_metrics(RowsOfPeriod(rows, p))]

InitNps ==
    /\ df \in SeqsUpTo(NpsRows, MaxRows)
    /\ script \in {"lojistas", "matrix"}
    /\ pc = "filter"
    /\ InitVars

\* lines 9-23
LojistasFilter ==
    /\ script = "lojistas" /\ pc = "filter"
    /\ df_final' = FilterFim(df)
    /\ pc' = "dedup"
    /\ UNCHANGED <<df, script, kanoVars, df_fim, output, grouped, portfolio>>

\* line 26
LojistasDedup ==
    /\ script = "lojistas" /\ pc = "dedup"
    /\ df_final' = DropDuplicates(df_final)
    /\ pc' = "shops"
    /\ UNCHANGED <<df, script, kanoVars, df_fim, output, grouped, portfolio>>

\* lines 60-76
LojistasPerShopping ==
    /\ script = "lojistas" /\ pc = "shops"
    /\ output' = [shop \in ShopsOf(df_final) |->
                     PeriodMetrics(RowsOfShop(df_final, shop), target_periods)]
    /\ pc' = "global"
    /\ UNCHANGED <<df, script, kanoVars, df_final, df_fim, grouped, portfolio>>

\* lines 79-86
LojistasGlobal ==
    /\ script = "lojistas" /\ pc = "global"
    /\ output' = [k \in DOMAIN output \cup {"GLOBAL"} |->
                     IF k = "GLOBAL" THEN PeriodMetrics(df_final, target_periods)
                     ELSE output[k]]
    /\ pc' = "report"
    /\ UNCHANGED <<df, script, kanoVars, df_final, df_fim, grouped, portfolio>>

\* lines 88-123: the console report reads output['SDI'], a KeyError when no
\* finished target row has the code SDI; lojistas_data.js is written after it
LojistasReport ==
    /\ script = "lojistas" /\ pc = "report"
    /\ pc' = IF "SDI" \in DOMAIN output THEN "done" ELSE "aborted"
    /\ UNCHANGED <<df, script, kanoVars, npsVars>>

\* lines 8-33
MatrixFilter ==
    /\ script = "matrix" /\ pc = "filter"
    /\ df_fim' = FilterFim(df)
    /\ pc' = "dedup"
    /\ UNCHANGED <<df, script, kanoVars, df_final, output, grouped, portfolio>>

\* line 36
MatrixDedup ==
    /\ script = "matrix" /\ pc = "dedup"
    /\ df_fim' = DropDuplicates(df_fim)
    /\ pc' = "grouped"
    /\ UNCHANGED <<df, script, kanoVars, df_final, output, grouped, portfolio>>

\* line 63
MatrixGrouped ==
    /\ script = "matrix" /\ pc = "grouped"
    /\ grouped' = Grouped(df_fim)
    /\ pc' = "portfolio"
    /\ UNCHANGED <<df, script, kanoVars, df_final, df_fim, output, portfolio>>

\* lines 66-96: the PORTFOLIO rows; the table printed is grouped and portfolio
MatrixPortfolio ==
    /\ script = "matrix" /\ pc = "portfolio"
    /\ portfolio' = Portfolio(df_fim)
    /\ pc' = "done"
    /\ UNCHANGED <<df, script, kanoVars, df_final, df_fim, output, grouped>>

NextNps ==
    \/ LojistasFilter
    \/ LojistasDedup
    \/ LojistasPerShopping
    \/ LojistasGlobal
    \/ LojistasReport
    \/ MatrixFilter
    \/ MatrixDedup
    \/ MatrixGrouped
    \/ MatrixPortfolio

SpecNps == InitNps /\ [][NextNps]_vars

---------------------------------------------------------------------------
(* Properties of gen_kano_data.py *)

AfterSelect == script = "kano" /\ pc # "select"
AfterPivot == script = "kano" /\ pc \notin {"select", "normalize", "pivot"}
KanoDone == script = "kano" /\ pc = "done"

\* the respondent has a row with topic = target, stage = 'Fim', period = '2025'
HasFinishedTarget(id) ==
    \E i \in DOMAIN df :
        /\ df[i].ResponseID = id /\ df[i].Tema = TARGET /\ df[i].Momento = Fim
        /\ Contains(df[i].Pesquisa, "2025")

\* the CSV without the rows of the respondents that have no finished target
\* row and without the target rows that are not finished
PurgedDf ==
    SelectSeq2(df, {i \in DOMAIN df :
        /\ HasFinishedTarget(df[i].ResponseID)
        /\ (df[i].Tema = TARGET => df[i].Momento = Fim)})

PurgedRows == NormalizeNota(SelectValid(PurgedDf))

\* C1: a respondent with no finished target row of 2025 is in no output of
\* the kano script: not in the selected rows, not a row of the pivot, not in
\* a roster, and every output is the one computed from the CSV without the
\* rows of such respondents; of the kept respondents the unfinished target
\* rows are dropped and every other row of 2025 is kept, whatever its stage.
C1_InvalidRespondentsExcluded ==
    /\ AfterSelect =>
          /\ \A r \in Range(df_2025) :
                /\ HasFinishedTarget(r.ResponseID)
                /\ r.Tema = TARGET => r.Momento = Fim
          /\ Cardinality({i \in DOMAIN df_2025 : df_2025[i].Tema # TARGET})
                = Cardinality({i \in DOMAIN df :
                     /\ Contains(df[i].Pesquisa, "2025")
                     /\ df[i].Tema # TARGET
                     /\ HasFinishedTarget(df[i].ResponseID)})
    /\ AfterPivot =>
          DOMAIN pivot = {id \in {r.ResponseID : r \in Range(df)} :
                            HasFinishedTarget(id)}
    /\ KanoDone =>
          LET rows == PurgedRows
              pv == Pivot(rows)
              ths == Columns(pv) \ {TARGET}
              shops == {pv[id].ShoppingCode : id \in DOMAIN pv} \ {NaN}
          IN /\ kano_global = calculate_stats(pv, DOMAIN pv, ths)
             /\ kano_by_shop =
                   [s \in shops |-> calculate_stats(pv, ShopIds(pv, s), ths)]
             /\ heatmap = Heatmap(pv, ths)
             /\ nps_static = NpsStatic(rows, shops)
             /\ \A s \in DOMAIN lojistas_list :
                   \A e \in Range(lojistas_list[s]) : HasFinishedTarget(e.rid)
             /\ \/ lojistas_list = Empty
                \/ lojistas_list = [s \in shops |-> Roster(rows, pv, s)]

\* statistics were emitted although the CSV has 2025 rows of a respondent
\* with no finished target row
C1_Witness ==
    /\ KanoDone
    /\ kano_global # Empty
    /\ \E i \in DOMAIN df :
          /\ Contains(df[i].Pesquisa, "2025")
          /\ ~HasFinishedTarget(df[i].ResponseID)

\* r < a / b for a correlation r that is defined (a >= 0, b > 0)
RLess(r, a, b) == r.cov < 0 \/ b * b * r.cov * r.cov < a * a * r.vx * r.vy

\* the ordered rules of the classifier: the first rule that applies wins
KanoRules(num, den, r) ==
    << <<RLess(r, 0, 1), "rev">>,
       <<num >= 85 * den /\ RLess(r, 1, 5), "bas">>,
       <<~RLess(r, 1, 4), "enc">>,
       <<num < 80 * den /\ RLess(r, 1, 5), "crit">>,
       <<TRUE, "per">> >>

FirstMatch(rules) ==
    rules[CHOOSE i \in DOMAIN rules :
             rules[i][1] /\ \A j \in 1..(i - 1) : ~rules[j][1]][2]

RuleCategory(num, den, r) == FirstMatch(KanoRules(num, den, r))

\* the groupings of the kano statistics: the whole pivot and each shopping
Groupings ==
    [k \in {"global"} \cup shoppings |->
        IF k = "global" THEN DOMAIN pivot ELSE ShopIds(pivot, k)]

\* the statistics emitted for a grouping
StatsOf(k) ==
    IF k = "global" THEN kano_global
    ELSE IF k \in DOMAIN kano_by_shop THEN kano_by_shop[k] ELSE Empty

\* the exact mean (num / den) and correlation behind an emitted statistic
StatNum(k, t) ==
    LET V == ValidPairs(pivot, Groupings[k], t) IN SumSet(ColNum(pivot, V, t), V)
StatDen(k, t) ==
    LET V == ValidPairs(pivot, Groupings[k], t)
    IN Cardinality(V) * ColDen(pivot, V, t)
StatR(k, t) == Pearson(pivot, ValidPairs(pivot, Groupings[k], t), t)

GridMeans == {0, 79, 80, 84, 85, 86, 90, 100}
GridR == {-100, -10, -1, 0, 1, 19, 20, 21, 24, 25, 26, 100}

PairedCount(ids, t) ==
    Cardinality({id \in ids :
        /\ \E r \in Range(df_2025) : r.ResponseID = id /\ r.Tema = t
        /\ \E r \in Range(df_2025) : r.ResponseID = id /\ r.Tema = TARGET})

RowThemes == {r.Tema : r \in Range(df_2025)} \ {TARGET}

\* C3: a statistic is emitted for a theme in a grouping (the whole pivot or a
\* shopping) exactly when at least 5 respondents of the grouping have a score
\* for the theme and for the target, and its n is that number.
C3_MinimumPairs ==
    /\ KanoDone =>
          /\ DOMAIN kano_global \subseteq RowThemes
          /\ \A t \in RowThemes :
                /\ t \in DOMAIN kano_global <=> PairedCount(DOMAIN pivot, t) >= 5
                /\ t \in DOMAIN kano_global =>
                      kano_global[t].n = PairedCount(DOMAIN pivot, t)
    /\ KanoDone =>
          /\ DOMAIN kano_by_shop = shoppings
          /\ \A s \in shoppings :
                /\ DOMAIN kano_by_shop[s] \subseteq RowThemes
                /\ \A t \in RowThemes :
                      LET n == PairedCount(ShopIds(pivot, s), t)
                      IN /\ t \in DOMAIN kano_by_shop[s] <=> n >= 5
                         /\ t \in DOMAIN kano_by_shop[s] =>
                               kano_by_shop[s][t].n = n

\* a theme with exactly 5 pairs in the pivot is emitted and, for a shopping
\* where it has exactly 4, is omitted
C3_Witness ==
    /\ KanoDone
    /\ \E t \in RowThemes :
          /\ PairedCount(DOMAIN pivot, t) = 5
          /\ t \in DOMAIN kano_global
          /\ \E s \in shoppings :
                /\ PairedCount(ShopIds(pivot, s), t) = 4
                /\ t \notin DOMAIN kano_by_shop[s]

\* every NPS record the three scripts emit, as
\* [nps, total, pcts (promoter, passive, detractor), counts or <<>>]
NpsRecords ==
    {[nps |-> nps_static[s].nps, total |-> nps_static[s].n,
      pcts |-> <<nps_static[s].prom, nps_static[s].neu, nps_static[s].detr>>,
      counts |-> <<>>] : s \in DOMAIN nps_static}
    \cup UNION {{[nps |-> m.nps, total |-> m.total,
                  pcts |-> <<m.prom_pct, m.pass_pct, m.det_pct>>,
                  counts |-> <<m.prom_abs, m.pass_abs, m.det_abs>>] :
                    m \in Range(output[k])} : k \in DOMAIN output}
    \cup {[nps |-> m.NPS, total |-> m.N,
           pcts |-> <<Pct(m.Prom, m.N), Pct(m.Neu, m.N), Pct(m.Det, m.N)>>,
           counts |-> <<m.Prom, m.Neu, m.Det>>] :
             m \in Range(grouped) \cup Range(portfolio)}

\* C4: every emitted NPS record has its score in [-100, 100], its three
\* percentages add up to 100 within rounding (0.1 per term at most) and its
\* three counts add up to its total.
C4_BandsPartition ==
    \A m \in NpsRecords :
        /\ m.nps >= -1000 /\ m.nps <= 1000
        /\ m.pcts[1] + m.pcts[2] + m.pcts[3] >= 999
        /\ m.pcts[1] + m.pcts[2] + m.pcts[3] <= 1001
        /\ m.counts # <<>> => m.counts[1] + m.counts[2] + m.counts[3] = m.total

\* C5: a statistic whose correlation is undefined is emitted with r = 0 and
\* with the category of the ordered rules for (mean, r = 0).
C5_UndefinedCorrelationIsZero ==
    KanoDone =>
        \A k \in DOMAIN Groupings : \A t \in DOMAIN StatsOf(k) :
            StatR(k, t).nan =>
                /\ StatsOf(k)[t].r = RZero
                /\ StatsOf(k)[t].cat =
                      RuleCategory(StatNum(k, t), StatDen(k, t), Corr(0, 1, 1))

\* C8: no emitted value is computed from an empty sample: every NPS record
\* has a total above 0 and no heatmap entry is NaN.
C8_NoEmptySample ==
    /\ \A m \in NpsRecords : m.total > 0
    /\ \A s \in DOMAIN heatmap : \A t \in DOMAIN heatmap[s] : ~heatmap[s][t].nan

\* the roster entries of respondent id in the roster of shopping s
EntriesOf(s, id) == {i \in DOMAIN lojistas_list[s] : lojistas_list[s][i].rid = id}

RosterCount(s, c) ==
    Cardinality({i \in DOMAIN lojistas_list[s] : lojistas_list[s][i].c = c})

\* every respondent of the pivot with a ShoppingCode has exactly one roster
\* entry, in the roster of that shopping
RosterExactlyOnce ==
    \A id \in DOMAIN pivot : \A s \in shoppings :
        Cardinality(EntriesOf(s, id)) = IF pivot[id].ShoppingCode = s THEN 1 ELSE 0

\* each roster has as many entries as the n of the shopping's NPS snapshot
RosterSizeIsSnapshotN ==
    \A s \in shoppings :
        Len(lojistas_list[s]) = IF s \in DOMAIN nps_static THEN nps_static[s].n ELSE 0

\* the categories of a roster are the bands of the shopping's NPS snapshot
RosterBandsAreSnapshotBands ==
    \A s \in shoppings \cap DOMAIN nps_static :
        LET n == nps_static[s].n
        IN /\ Pct(RosterCount(s, "prom"), n) = nps_static[s].prom
           /\ Pct(RosterCount(s, "pass"), n) = nps_static[s].neu
           /\ Pct(RosterCount(s, "detr"), n) = nps_static[s].detr

\* C10: when the roster is built, every respondent of the pivot with a
\* ShoppingCode has exactly one roster entry, in the roster of that shopping;
\* each roster has as many entries as the n of the shopping's NPS snapshot,
\* and its categories are the bands of the snapshot.
C10_RosterMatchesSnapshot ==
    (KanoDone /\ DOMAIN lojistas_list = shoppings) =>
        /\ RosterExactlyOnce
        /\ RosterSizeIsSnapshotN
        /\ RosterBandsAreSnapshotBands

---------------------------------------------------------------------------
(* Properties of the NPS table and of the NPS matrix *)

\* the finished, de-duplicated target rows of the running script
FinalRows == IF script = "lojistas" THEN df_final ELSE df_fim

Deduped == script \in {"lojistas", "matrix"} /\ pc \notin {"filter", "dedup"}
TableBuilt == script = "lojistas" /\ pc \in {"report", "done", "aborted"}
MatrixBuilt == script = "matrix" /\ pc = "done"

\* the CSV rows that are finished target rows of respondent id in period p
Finished(p, id) ==
    {i \in DOMAIN df :
        /\ df[i].Tema = TARGET /\ df[i].Momento = Fim
        /\ df[i].ResponseID = id /\ map_period(df[i].Pesquisa) = p}

Min(S) == CHOOSE x \in S : \A y \in S : x <= y

AllIds == {r.ResponseID : r \in Range(df)}
AllPeriods == {map_period(r.Pesquisa) : r \in Range(df)}

\* the respondents with a finished target row in period p
Respondents(p) == {id \in AllIds : Finished(p, id) # {}}

\* those whose first finished target row of the period has the code s
RespondentsOf(p, s) ==
    {id \in Respondents(p) : df[Min(Finished(p, id))].ShoppingCode = s}

\* the records of period p in a list of the NPS table
RecordsOf(list, p) == {i \in DOMAIN list : list[i].period = p}

\* C9: after the de-duplication the retained rows hold at most one row per
\* (period, respondent), the first finished target row of the pair in the
\* CSV; the GLOBAL and the PORTFOLIO total of a period is the number of
\* respondents with a finished target row in the period, and the total of a
\* shopping's record counts the respondents whose first such row has its
\* code, so that a respondent is counted for at most one shopping.
C9_FirstRowPerRespondent ==
    /\ Deduped =>
          /\ \A i, j \in DOMAIN FinalRows :
                (/\ FinalRows[i].Period = FinalRows[j].Period
                 /\ FinalRows[i].ResponseID = FinalRows[j].ResponseID) => i = j
          /\ \A r \in Range(FinalRows) :
                LET k == Min(Finished(r.Period, r.ResponseID))
                IN /\ Finished(r.Period, r.ResponseID) # {}
                   /\ r.Pesquisa = df[k].Pesquisa
                   /\ r.ShoppingCode = df[k].ShoppingCode
                   /\ r.Nota = df[k].Nota
          /\ \A p \in AllPeriods : \A id \in Respondents(p) :
                \E r \in Range(FinalRows) : r.Period = p /\ r.ResponseID = id
    /\ TableBuilt =>
          \A q \in DOMAIN target_periods :
              LET p == target_periods[q]
              IN /\ \A k \in DOMAIN output :
                       LET n == IF k = "GLOBAL" THEN Cardinality(Respondents(p))
                                ELSE Cardinality(RespondentsOf(p, k))
                           recs == RecordsOf(output[k], p)
                       IN /\ Cardinality(recs) = IF n = 0 THEN 0 ELSE 1
                          /\ \A i \in recs : output[k][i].total = n
    /\ MatrixBuilt =>
          /\ DOMAIN portfolio = {p \in AllPeriods : Respondents(p) # {}}
          /\ \A p \in DOMAIN portfolio :
                portfolio[p].N = Cardinality(Respondents(p))
          /\ \A g \in DOMAIN grouped :
                grouped[g].N = Cardinality(RespondentsOf(g[2], g[1]))

\* the table was written for a CSV where a respondent has two finished target
\* rows of one period, with different survey labels and shopping codes, and
\* the GLOBAL record of the period counts the respondent once
C9_Witness ==
    /\ script = "lojistas" /\ pc = "done"
    /\ \E i, j \in DOMAIN df :
          /\ i < j
          /\ i \in Finished(<<"2025">>, df[i].ResponseID)
          /\ j \in Finished(<<"2025">>, df[i].ResponseID)
          /\ df[i].Pesquisa # df[j].Pesquisa
          /\ df[i].ShoppingCode # df[j].ShoppingCode
    /\ \E i \in DOMAIN output["GLOBAL"] :
          /\ output["GLOBAL"][i].period = <<"2025">>
          /\ output["GLOBAL"][i].total = 1

\* the scores of a dataset are on the 0-100 scale
DatasetScaled == NeedsScaling({r.Nota : r \in Range(FinalRows)})

\* the counts (promoters, passives, detractors) of the rows of FinalRows at
\* the indices idx, every score divided by 10 when the dataset is scaled
DatasetCounts(idx) ==
    LET note(i) == IF DatasetScaled THEN FinalRows[i].Nota \div 10
                   ELSE FinalRows[i].Nota
    IN <<Cardinality({i \in idx : Promoter(note(i))}),
         Cardinality({i \in idx : Passive(note(i))}),
         Cardinality({i \in idx : Detractor(note(i))})>>

RowsIn(p, s) ==
    {i \in DOMAIN FinalRows :
        FinalRows[i].Period = p /\ (s = "GLOBAL" \/ FinalRows[i].ShoppingCode = s)}

SumOverShops(p, F(_)) ==
    LET gs == {g \in DOMAIN grouped : g[2] = p}
    IN SumSet([g \in gs |-> F(grouped[g])], gs)

FieldN(m) == m.N
FieldDet(m) == m.Det
FieldNeu(m) == m.Neu
FieldProm(m) == m.Prom

GroupCounts(idx) ==
    LET scaled == NeedsScaling({FinalRows[i].Nota : i \in idx})
        note(i) == IF scaled THEN FinalRows[i].Nota \div 10 ELSE FinalRows[i].Nota
    IN <<Cardinality({i \in idx : Promoter(note(i))}),
         Cardinality({i \in idx : Passive(note(i))}),
         Cardinality({i \in idx : Detractor(note(i))})>>

KanoScaleDecidedOnce ==
    (script = "kano" /\ pc \notin {"select", "normalize"}) =>
        LET raw == SelectValid(df)
            scaled == NeedsScaling({r.Nota : r \in Range(raw)})
        IN /\ Len(df_2025) = Len(raw)
           /\ \A i \in DOMAIN raw :
                 df_2025[i].Nota = IF scaled THEN raw[i].Nota \div 10
                                   ELSE raw[i].Nota

\* the rows of period p that have no ShoppingCode
Uncoded(p) ==
    {i \in DOMAIN FinalRows : FinalRows[i].Period = p /\ FinalRows[i].ShoppingCode = NaN}

\* every group of a shopping in period p decides the scale as the period does
SameScale(p) ==
    \A g \in DOMAIN grouped :
        g[2] = p =>
            (NeedsScaling({FinalRows[i].Nota : i \in RowsIn(p, g[1])})
                <=> NeedsScaling({FinalRows[i].Nota : i \in RowsIn(p, "GLOBAL")}))

===========================================================================
